---------------------------- MODULE Spec2Model ----------------------------
(***************************************************************************)
(* Model of the Windows machine config operator's node lifecycle engine:   *)
(*   - pkg/instances: InstanceInfo, UpToDate, UpgradeRequired              *)
(*   - pkg/windows:   sshConnectivity.init (connection retry loop)         *)
(*   - pkg/windows:   sshConnectivity.run and sshConnectivity.transfer     *)
(*   - pkg/annotations: generateAnnotationPatch and its two wrappers, and  *)
(*                    the application of the documents they generate       *)
(*   - controllers:   upgradeBlocked and the reconciliation pass           *)
(*   - test/e2e:      testKubeletCARotation and the kubelet CA bundle      *)
(*   - pkg/envvar:    EnsureVarsAreUpToDate                                *)
(* Each component has its own specification over the shared variables; the *)
(* variables of the other components stay at their initial values.         *)
(***************************************************************************)
EXTENDS Integers, Sequences, FiniteSets, TLC

VARIABLES
    \* --- instance record and reconciliation pass ---
    runningVersion,   \* version.Get(): the version of the running controller
    clusterNode,      \* the Node object held by the cluster, or NoNode
    info,             \* the InstanceInfo of the current (or last) pass
    pc,               \* position of the reconciliation pass
    upToDate,         \* info.UpToDate() as computed when the pass started
    upgradeRequired,  \* info.UpgradeRequired() as computed when the pass started
    gate,             \* "notEvaluated" | "open" | "blocked"
    host,             \* [version, steps]: what is configured on the host
    touched,          \* destructive steps performed by the current pass
    result,           \* "none" | "Configured" | "UpgradeBlocked" | "Failed"
    \* --- upgrade gate, called on its own ---
    gateIn,           \* [node, upgradingToCSI, podStats]: the arguments
    gateOut,          \* [called, blocked]: the value upgradeBlocked returned
    gateTest,         \* index of the TestUpgradeBlocked case run, 0 for none
    \* --- sshConnectivity.init ---
    conn,             \* the sshConnectivity: username, ipAddress, signer, sshClient
    sshPc,            \* "new" | "dial" | "wait" | "done": position of init
    elapsed,          \* minutes since wait.PollImmediate was entered
    dials,            \* the outcomes of the ssh.Dial calls so far, in order
    initErr,          \* the error init returned, NilErr for nil
    cancelled,        \* the caller of init no longer wants the connection
    \* --- pkg/annotations ---
    patchIn,          \* [fn, isNil, annotations, keys]: the call and its argument
    patchOut,         \* [returned, data, isNil, err]: what the call returned
    obj,              \* metadata.annotations of the object the patch is sent for
    applyLog,         \* one [before, after, err] per application of the patch
    \* --- sshConnectivity.run and sshConnectivity.transfer ---
    tCall,            \* [fn, sshClient, cmd, filename, remoteDir]: the call
    tPc,              \* position of the call
    handles,          \* [session, ftp, file]: "none" | "open" | "closed"
    remote,           \* [dir, file, written, closed]: the VM's file system
    tLog,             \* the messages given to c.log.Error, in order
    tOps,             \* the operations performed on the VM, in order
    tRet,             \* [returned, out, err]: the value of the return statement
    \* --- kubelet CA bundle rotation and its end-to-end test ---
    authoritative,    \* the CA bundle of the cluster's ConfigMap: a list of blocks
    rotationPending,  \* a rotation was forced and has not taken place yet
    installed,        \* per node, the blocks of its CA bundle file
    reachable,        \* per node, whether commands and transfers reach it
    addresses,        \* per node, whether its status holds a usable address
    testPc,           \* position of testKubeletCARotation
    cur,              \* index of the node the test's loop is at
    pollElapsed,      \* intervals since wait.Poll was entered for that node
    results,          \* per node, the outcome of its subtest
    report,           \* "none" | "passed" | "failed": outcome of the test
    \* --- envvar.EnsureVarsAreUpToDate ---
    envVars,          \* the argument: expected value per variable name
    registry,         \* the values under the system environment registry key
    regBefore,        \* the registry as it was when the current call started
    envPc,            \* "call" | "loop" | "close" | "done": position of the call
    envTodo,          \* the names range has not visited yet, in its order
    restartRequired,  \* the local variable of that name
    keyHandle,        \* "none" | "open" | "closed" | "closeFailed"
    envRet,           \* [restart, err]: the value of the return statement
    envLog            \* one [before, after, restart, err] per call returned

instVars == <<runningVersion, clusterNode, info, pc, upToDate, upgradeRequired,
              gate, host, touched, result>>

gateVars == <<gateIn, gateOut, gateTest>>

sshVars == <<conn, sshPc, elapsed, dials, initErr, cancelled>>

patchVars == <<patchIn, patchOut, obj, applyLog>>

transVars == <<tCall, tPc, handles, remote, tLog, tOps, tRet>>

certVars == <<authoritative, rotationPending, installed, reachable, addresses,
              testPc, cur, pollElapsed, results, report>>

envVarVars == <<envVars, registry, regBefore, envPc, envTodo, restartRequired,
                keyHandle, envRet, envLog>>

vars == <<instVars, gateVars, sshVars, patchVars, transVars, certVars,
         envVarVars>>

\* the variables of the other components, per component
notInst == <<gateVars, sshVars, patchVars, transVars, certVars,
            envVarVars>>
notGate == <<instVars, sshVars, patchVars, transVars, certVars,
            envVarVars>>
notSsh == <<instVars, gateVars, patchVars, transVars, certVars,
            envVarVars>>
notPatch == <<instVars, gateVars, sshVars, transVars, certVars,
            envVarVars>>
notTrans == <<instVars, gateVars, sshVars, patchVars, certVars,
            envVarVars>>
notCert == <<instVars, gateVars, sshVars, patchVars, transVars,
            envVarVars>>
notEnvVar == <<instVars, gateVars, sshVars, patchVars, transVars, certVars>>

-----------------------------------------------------------------------------
(* Values *)

\* metadata.VersionAnnotation: the annotation key read by UpToDate
VersionAnnotation == "windowsmachineconfig.openshift.io/version"

\* metadata.CSIConfiguredLabel: the "storage-driver-migrated" marker label
CSIConfiguredLabel == "windowsmachineconfig.openshift.io/csi-configured"

\* values a version annotation can hold; "" is a present-but-empty value
AnnotationValues == {"", "v1", "v2"}

\* versions the running controller can have; "" is a build without a version
ControllerVersions == {"", "v1", "v2"}

\* names of volumes / persistent volume claims
Volumes == {"vol1", "test-pvc"}

\* a nil *core.Node
NoNode == [nil |-> TRUE]

\* kubelet volume stats of the pods of a node: the volume and its driver path
VolumeStats == [pvc : Volumes, inTree : BOOLEAN]

\* number of remote commands/transfers of one configuration
NSteps == 2

-----------------------------------------------------------------------------
(* pkg/instances *)

\* NewInstanceInfo(address, username, newHostname, node)
NewInstanceInfo(address, username, newHostname, node) ==
    [Address |-> address, Username |-> username,
     NewHostname |-> newHostname, Node |-> node]

\* node.GetAnnotations()[key]: the value ("" when absent) and presence
GetAnnotation(node, key) ==
    IF key \in DOMAIN node.annotations
    THEN [value |-> node.annotations[key], present |-> TRUE]
    ELSE [value |-> "", present |-> FALSE]

\* mutant: compares the value without looking at presence, so an absent
\* annotation reads as "" and matches an empty version
UpToDate_noPresenceCheck(i, version) ==
    IF i.Node = NoNode THEN FALSE
    ELSE LET a == GetAnnotation(i.Node, VersionAnnotation)
         IN  a.value = version

\* (i *InstanceInfo) UpToDate(), with version.Get() passed in
UpToDate(i, version) ==
    IF i.Node = NoNode THEN FALSE
    ELSE LET a == GetAnnotation(i.Node, VersionAnnotation)
         IN  a.present /\ a.value = version

\* mutant: the presence check of the version annotation is left out
UpgradeRequired_noPresenceCheck(i, version) ==
    IF UpToDate(i, version) THEN FALSE
    ELSE IF i.Node = NoNode THEN FALSE
    ELSE TRUE

\* mutant: an empty annotation value is treated like a missing annotation
UpgradeRequired_emptyIsAbsent(i, version) ==
    IF UpToDate(i, version) THEN FALSE
    ELSE IF i.Node = NoNode THEN FALSE
    ELSE IF ~GetAnnotation(i.Node, VersionAnnotation).present THEN FALSE
    ELSE GetAnnotation(i.Node, VersionAnnotation).value # ""

\* (i *InstanceInfo) UpgradeRequired(), with version.Get() passed in
UpgradeRequired(i, version) ==
    IF UpToDate(i, version) THEN FALSE
    ELSE IF i.Node = NoNode THEN FALSE
    ELSE IF ~GetAnnotation(i.Node, VersionAnnotation).present THEN FALSE
    ELSE TRUE

\* the derived lifecycle state of the data model's table
LifecycleState(i, version) ==
    IF i.Node = NoNode THEN "NotJoined"
    ELSE IF VersionAnnotation \notin DOMAIN i.Node.annotations
         THEN "PartiallyConfigured"
    ELSE IF i.Node.annotations[VersionAnnotation] = version THEN "UpToDate"
    ELSE "UpgradeRequired"

-----------------------------------------------------------------------------
(* controllers: the upgrade gate *)

\* mutant: the marker label is not consulted
upgradeBlocked_noMarker(node, upgradingToCSI, podStats) ==
    IF ~upgradingToCSI THEN FALSE
    ELSE \E v \in node.volumesAttached :
            \E s \in podStats : s.pvc = v /\ s.inTree

\* r.upgradeBlocked(node, upgradingToCSI, podStats)
upgradeBlocked(node, upgradingToCSI, podStats) ==
    IF CSIConfiguredLabel \in node.labels THEN FALSE
    ELSE IF ~upgradingToCSI THEN FALSE
    ELSE \E v \in node.volumesAttached :
            \E s \in podStats : s.pvc = v /\ s.inTree

-----------------------------------------------------------------------------
(* The cluster object store acting on the instance's Node *)

CreateNode ==
    /\ clusterNode = NoNode
    /\ \E l \in SUBSET {CSIConfiguredLabel}, va \in SUBSET Volumes :
          clusterNode' = [annotations |-> <<>>, labels |-> l,
                          volumesAttached |-> va]
    /\ UNCHANGED <<runningVersion, info, pc, upToDate, upgradeRequired, gate,
                   host, touched, result>>
    /\ UNCHANGED notInst

RemoveNode ==
    /\ clusterNode # NoNode
    /\ clusterNode' = NoNode
    /\ UNCHANGED <<runningVersion, info, pc, upToDate, upgradeRequired, gate,
                   host, touched, result>>
    /\ UNCHANGED notInst

AddAnnotation ==
    /\ clusterNode # NoNode
    /\ VersionAnnotation \notin DOMAIN clusterNode.annotations
    /\ \E v \in AnnotationValues :
          clusterNode' = [clusterNode EXCEPT
                             !.annotations = (VersionAnnotation :> v)]
    /\ UNCHANGED <<runningVersion, info, pc, upToDate, upgradeRequired, gate,
                   host, touched, result>>
    /\ UNCHANGED notInst

ChangeAnnotation ==
    /\ clusterNode # NoNode
    /\ VersionAnnotation \in DOMAIN clusterNode.annotations
    /\ \E v \in AnnotationValues \ {clusterNode.annotations[VersionAnnotation]} :
          clusterNode' = [clusterNode EXCEPT
                             !.annotations = (VersionAnnotation :> v)]
    /\ UNCHANGED <<runningVersion, info, pc, upToDate, upgradeRequired, gate,
                   host, touched, result>>
    /\ UNCHANGED notInst

RemoveAnnotation ==
    /\ clusterNode # NoNode
    /\ VersionAnnotation \in DOMAIN clusterNode.annotations
    /\ clusterNode' = [clusterNode EXCEPT !.annotations = <<>>]
    /\ UNCHANGED <<runningVersion, info, pc, upToDate, upgradeRequired, gate,
                   host, touched, result>>
    /\ UNCHANGED notInst

-----------------------------------------------------------------------------
(* The reconciliation pass over one instance *)

\* the pass starts: the record is built from the Node as it is now and the
\* two predicates are evaluated on it
StartPass ==
    /\ pc = "idle"
    /\ info' = NewInstanceInfo("10.0.0.1", "Administrator", "", clusterNode)
    /\ upToDate' = UpToDate(info', runningVersion)
    /\ upgradeRequired' = UpgradeRequired(info', runningVersion)
    /\ gate' = "notEvaluated"
    /\ touched' = 0
    /\ result' = "none"
    /\ pc' = "classified"
    /\ UNCHANGED <<runningVersion, clusterNode, host>>
    /\ UNCHANGED notInst

\* an up-to-date instance needs nothing
FinishUpToDate ==
    /\ pc = "classified"
    /\ upToDate
    /\ result' = "Configured"
    /\ pc' = "idle"
    /\ UNCHANGED <<runningVersion, clusterNode, info, upToDate, upgradeRequired,
                   gate, host, touched>>
    /\ UNCHANGED notInst

\* an upgrade candidate goes through the upgrade gate first
EvaluateGate ==
    /\ pc = "classified"
    /\ upgradeRequired
    /\ \E upgradingToCSI \in BOOLEAN, podStats \in SUBSET VolumeStats :
          IF upgradeBlocked(info.Node, upgradingToCSI, podStats)
          THEN /\ gate' = "blocked"
               /\ result' = "UpgradeBlocked"
               /\ pc' = "idle"
          ELSE /\ gate' = "open"
               /\ result' = "none"
               /\ pc' = "connect"
    /\ UNCHANGED <<runningVersion, clusterNode, info, upToDate, upgradeRequired,
                   host, touched>>
    /\ UNCHANGED notInst

\* an instance that was never fully configured is configured normally
BeginConfigure ==
    /\ pc = "classified"
    /\ ~upToDate
    /\ ~upgradeRequired
    /\ pc' = "connect"
    /\ UNCHANGED <<runningVersion, clusterNode, info, upToDate, upgradeRequired,
                   gate, host, touched, result>>
    /\ UNCHANGED notInst

\* the transport session is opened
Connect ==
    /\ pc = "connect"
    /\ \E ok \in BOOLEAN :
          IF ok
          THEN pc' = "configure" /\ result' = "none"
          ELSE pc' = "idle" /\ result' = "Failed"
    /\ UNCHANGED <<runningVersion, clusterNode, info, upToDate, upgradeRequired,
                   gate, host, touched>>
    /\ UNCHANGED notInst

\* one remote command or transfer; the first one of an upgrade deconfigures.
\* A failed step may have acted on the host before it failed.
ConfigureStep ==
    /\ pc = "configure"
    /\ touched < NSteps
    /\ \E ok \in BOOLEAN :
          IF ok
          THEN /\ host' = [version |-> runningVersion, steps |-> touched + 1]
               /\ UNCHANGED <<pc, result>>
          ELSE /\ host' = [version |-> runningVersion, steps |-> touched]
               /\ pc' = "idle"
               /\ result' = "Failed"
    /\ touched' = touched + 1
    /\ UNCHANGED <<runningVersion, clusterNode, info, upToDate, upgradeRequired,
                   gate>>
    /\ UNCHANGED notInst

\* mutant: the version annotation is patched before the steps are through
AnnotateVersion_early ==
    /\ pc = "configure"
    /\ touched <= NSteps
    /\ IF clusterNode = NoNode
       THEN /\ result' = "Failed"
            /\ UNCHANGED <<clusterNode, touched>>
       ELSE /\ clusterNode' = [clusterNode EXCEPT !.annotations =
                                  (VersionAnnotation :> runningVersion)]
            /\ touched' = touched + 1
            /\ result' = "Configured"
    /\ pc' = "idle"
    /\ UNCHANGED <<runningVersion, info, upToDate, upgradeRequired, gate, host>>
    /\ UNCHANGED notInst

\* every step succeeded: the version annotation is patched onto the Node
AnnotateVersion ==
    /\ pc = "configure"
    /\ touched = NSteps
    /\ IF clusterNode = NoNode
       THEN /\ result' = "Failed"
            /\ UNCHANGED <<clusterNode, touched>>
       ELSE /\ clusterNode' = [clusterNode EXCEPT !.annotations =
                                  (VersionAnnotation :> runningVersion)]
            /\ touched' = touched + 1
            /\ result' = "Configured"
    /\ pc' = "idle"
    /\ UNCHANGED <<runningVersion, info, upToDate, upgradeRequired, gate, host>>
    /\ UNCHANGED notInst

-----------------------------------------------------------------------------
(* Specification of the instance record and its reconciliation *)

\* the Windows nodes of the cluster, in the order gc.allNodes() lists them
NodeList == <<"win1", "win2">>

WinNodes == {NodeList[k] : k \in DOMAIN NodeList}

EnvVarIdle ==
    /\ envVars = <<>>
    /\ registry = <<>>
    /\ regBefore = <<>>
    /\ envPc = "call"
    /\ envTodo = <<>>
    /\ restartRequired = FALSE
    /\ keyHandle = "none"
    /\ envRet = [restart |-> FALSE, err |-> <<>>]
    /\ envLog = <<>>

CertIdle ==
    /\ authoritative = <<"A">>
    /\ rotationPending = FALSE
    /\ installed = [n \in WinNodes |-> <<"A">>]
    /\ reachable = [n \in WinNodes |-> TRUE]
    /\ addresses = [n \in WinNodes |-> TRUE]
    /\ testPc = "force"
    /\ cur = 1
    /\ pollElapsed = 0
    /\ results = [n \in WinNodes |-> "pending"]
    /\ report = "none"

TransIdle ==
    /\ tCall = [fn |-> "run", sshClient |-> "nil", cmd |-> "", filename |-> "",
                remoteDir |-> ""]
    /\ tPc = "call"
    /\ handles = [session |-> "none", ftp |-> "none", file |-> "none"]
    /\ remote = [dir |-> FALSE, file |-> FALSE, written |-> 0, closed |-> FALSE]
    /\ tLog = <<>>
    /\ tOps = <<>>
    /\ tRet = [returned |-> FALSE, out |-> "", err |-> <<>>]

PatchIdle ==
    /\ patchIn = [fn |-> "GenerateAddPatch", isNil |-> TRUE,
                  annotations |-> <<>>, keys |-> <<>>]
    /\ patchOut = [returned |-> FALSE, data |-> <<>>, isNil |-> TRUE,
                   err |-> <<>>]
    /\ obj = <<>>
    /\ applyLog = <<>>

SshIdle ==
    /\ conn = [username |-> "", ipAddress |-> "", signer |-> "nil",
               sshClient |-> "nil"]
    /\ sshPc = "new"
    /\ elapsed = 0
    /\ dials = <<>>
    /\ initErr = <<>>
    /\ cancelled = FALSE

GateIdle ==
    /\ gateIn = [node |-> [annotations |-> <<>>, labels |-> {},
                           volumesAttached |-> {}],
                 upgradingToCSI |-> FALSE, podStats |-> {}]
    /\ gateOut = [called |-> FALSE, blocked |-> FALSE]
    /\ gateTest = 0

InstInit ==
    /\ runningVersion \in ControllerVersions
    /\ clusterNode = NoNode
    /\ info = NewInstanceInfo("10.0.0.1", "Administrator", "", NoNode)
    /\ pc = "idle"
    /\ upToDate = FALSE
    /\ upgradeRequired = FALSE
    /\ gate = "notEvaluated"
    /\ host = [version |-> "none", steps |-> 0]
    /\ touched = 0
    /\ result = "none"

Init ==
    /\ InstInit
    /\ GateIdle
    /\ SshIdle
    /\ PatchIdle
    /\ TransIdle
    /\ CertIdle
    /\ EnvVarIdle

Next ==
    \/ CreateNode
    \/ RemoveNode
    \/ AddAnnotation
    \/ ChangeAnnotation
    \/ RemoveAnnotation
    \/ StartPass
    \/ FinishUpToDate
    \/ EvaluateGate
    \/ BeginConfigure
    \/ Connect
    \/ ConfigureStep
    \/ AnnotateVersion

Spec == Init /\ [][Next]_vars

-----------------------------------------------------------------------------
(* Claims about the instance record and its reconciliation *)

\* the record of the Node as the cluster holds it now
CurrentInfo == NewInstanceInfo("10.0.0.1", "Administrator", "", clusterNode)

\* the version annotation of a record's Node is present
HasVersionAnnotation(i) ==
    i.Node # NoNode /\ VersionAnnotation \in DOMAIN i.Node.annotations

\* what UpToDate is claimed to return for a record
UpToDateExpected(i) ==
    /\ i.Node # NoNode
    /\ VersionAnnotation \in DOMAIN i.Node.annotations
    /\ i.Node.annotations[VersionAnnotation] = runningVersion

\* what UpgradeRequired is claimed to return for a record
UpgradeRequiredExpected(i) ==
    /\ i.Node # NoNode
    /\ VersionAnnotation \in DOMAIN i.Node.annotations
    /\ i.Node.annotations[VersionAnnotation] # runningVersion

\* C1: UpToDate() is false when Node is nil, and otherwise true exactly when
\* the version annotation is present and equals the running version; this
\* holds of the value the pass computed and of the record of the Node as it
\* is in every state.
C1_UpToDateIff ==
    /\ upToDate = UpToDateExpected(info)
    /\ UpToDate(CurrentInfo, runningVersion) = UpToDateExpected(CurrentInfo)
    /\ (CurrentInfo.Node = NoNode => ~UpToDate(CurrentInfo, runningVersion))

\* C1 witness: a pass has classified a record whose annotation equals the
\* running version as up to date
C1_Witness ==
    /\ pc = "classified"
    /\ HasVersionAnnotation(info)
    /\ info.Node.annotations[VersionAnnotation] = runningVersion
    /\ upToDate

\* C2: UpgradeRequired() is true exactly when Node is present, the version
\* annotation is present and its value differs from the running version; it
\* is false when the record is up to date, when Node is nil and when the
\* annotation is absent.
C2_UpgradeRequiredIff ==
    /\ upgradeRequired = UpgradeRequiredExpected(info)
    /\ UpgradeRequired(CurrentInfo, runningVersion)
          = UpgradeRequiredExpected(CurrentInfo)
    /\ (upToDate => ~upgradeRequired)
    /\ (~HasVersionAnnotation(info) => ~upgradeRequired)

\* C2 witness: a pass has classified a record whose annotation differs from
\* the running version as needing an upgrade
C2_Witness ==
    /\ pc = "classified"
    /\ HasVersionAnnotation(info)
    /\ info.Node.annotations[VersionAnnotation] # runningVersion
    /\ upgradeRequired

\* the number of the given facts that hold
CountTrue(facts) == Cardinality({n \in DOMAIN facts : facts[n]})

\* C3: in every reachable state of the record exactly one of UpToDate(),
\* UpgradeRequired() and "needs first-time configuration" (Node absent or
\* annotation absent) holds, the two predicates agree with the lifecycle
\* table, and an absent Node is in the NotJoined state.
C3_ExactlyOneState ==
    LET i == CurrentInfo
        u == UpToDate(i, runningVersion)
        r == UpgradeRequired(i, runningVersion)
        f == ~HasVersionAnnotation(i)
        s == LifecycleState(i, runningVersion)
    IN  /\ CountTrue(<<u, r, f>>) = 1
        /\ ~(u /\ r)
        /\ u = (s = "UpToDate")
        /\ r = (s = "UpgradeRequired")
        /\ f = (s \in {"NotJoined", "PartiallyConfigured"})
        /\ (i.Node = NoNode => s = "NotJoined" /\ ~u /\ ~r)

\* C3 witness: after its annotation was changed, a Node that a finished pass
\* had annotated with the running version needs an upgrade
C3_Witness ==
    /\ result = "Configured"
    /\ HasVersionAnnotation(CurrentInfo)
    /\ UpgradeRequired(CurrentInfo, runningVersion)
    /\ ~UpToDate(CurrentInfo, runningVersion)

\* C7 (state part): a pass over a record in the UpgradeRequired state has
\* performed a destructive step only with the gate evaluated and open, and a
\* blocked gate ends the pass with UpgradeBlocked and nothing performed
C7_GateInv ==
    /\ (LifecycleState(info, runningVersion) = "UpgradeRequired" /\ touched > 0)
          => gate = "open"
    /\ gate = "blocked"
          => /\ pc = "idle"
             /\ result = "UpgradeBlocked"
             /\ result # "Failed"
             /\ touched = 0

\* C7: in a pass over a record in the UpgradeRequired state no destructive
\* step (remote command, transfer, version-annotation patch) happens unless
\* the upgrade gate was evaluated earlier in the pass and returned
\* not-blocked; the step in which the gate returns blocked ends the pass with
\* UpgradeBlocked and leaves the host and the Node unchanged.
C7_GateBeforeDestructive ==
    /\ []C7_GateInv
    /\ [][(gate # "blocked" /\ gate' = "blocked")
             => (host' = host /\ clusterNode' = clusterNode /\ pc' = "idle")]_vars
    /\ [][(LifecycleState(info, runningVersion) = "UpgradeRequired"
             /\ pc \in {"connect", "configure"} /\ touched' # touched)
             => gate = "open"]_vars

\* C7 witness: the gate blocked the pass of an upgrade candidate
C7_Witness ==
    /\ gate = "blocked"
    /\ result = "UpgradeBlocked"
    /\ LifecycleState(info, runningVersion) = "UpgradeRequired"

\* C7 second scenario: an upgrade went through an open gate to completion
C7_UpgradeDone ==
    /\ gate = "open"
    /\ result = "Configured"
    /\ touched = NSteps + 1

-----------------------------------------------------------------------------
(* The upgrade gate called on its own, and the cases of TestUpgradeBlocked *)

\* metadata.AllowUpgradeLabel: set by the test when a case has override
AllowUpgradeLabel == "windowsmachineconfig.openshift.io/allow-upgrade"

\* the table of TestUpgradeBlocked
TestUpgradeBlockedCases ==
    << [override |-> FALSE, hasCSILabel |-> FALSE, volumeMounted |-> TRUE,
        upgradingToCSI |-> FALSE, expected |-> FALSE],
       [override |-> FALSE, hasCSILabel |-> FALSE, volumeMounted |-> TRUE,
        upgradingToCSI |-> TRUE, expected |-> FALSE],
       [override |-> FALSE, hasCSILabel |-> FALSE, volumeMounted |-> FALSE,
        upgradingToCSI |-> TRUE, expected |-> FALSE],
       [override |-> FALSE, hasCSILabel |-> TRUE, volumeMounted |-> TRUE,
        upgradingToCSI |-> TRUE, expected |-> FALSE] >>

\* mutant: the test's Node lists the mounted volume as attached
TestNode_attachesMounted(tt) ==
    [annotations |-> <<>>,
     labels |-> (IF tt.override THEN {AllowUpgradeLabel} ELSE {})
                \cup (IF tt.hasCSILabel THEN {CSIConfiguredLabel} ELSE {}),
     volumesAttached |-> IF tt.volumeMounted THEN {"test-pvc"} ELSE {}]

\* the Node the test builds for a case: no attached volumes, labels by case
TestNode(tt) ==
    [annotations |-> <<>>,
     labels |-> (IF tt.override THEN {AllowUpgradeLabel} ELSE {})
                \cup (IF tt.hasCSILabel THEN {CSIConfiguredLabel} ELSE {}),
     volumesAttached |-> {}]

\* the pod stats the test builds for a case: one PVC-backed volume when
\* volumeMounted; the stats do not say which driver backs it
TestPods(tt, inTree) ==
    IF tt.volumeMounted
    THEN {[pvc |-> "test-pvc", inTree |-> inTree]}
    ELSE {}

\* the Nodes the gate is called with
GateNodes ==
    [annotations : {<<>>},
     labels : SUBSET {CSIConfiguredLabel},
     volumesAttached : SUBSET Volumes]

\* r.upgradeBlocked is called with the arguments drawn initially
CallUpgradeBlocked ==
    /\ ~gateOut.called
    /\ gateOut' = [called |-> TRUE,
                   blocked |-> upgradeBlocked(gateIn.node, gateIn.upgradingToCSI,
                                              gateIn.podStats)]
    /\ UNCHANGED <<gateIn, gateTest>>
    /\ UNCHANGED notGate

\* one case of TestUpgradeBlocked: the arguments are built and the gate called
RunTestCase ==
    /\ gateTest = 0
    /\ \E k \in 1..Len(TestUpgradeBlockedCases), inTree \in BOOLEAN :
          LET tt == TestUpgradeBlockedCases[k]
              node == TestNode(tt)
              pods == TestPods(tt, inTree)
          IN  /\ gateIn' = [node |-> node, upgradingToCSI |-> tt.upgradingToCSI,
                            podStats |-> pods]
              /\ gateOut' = [called |-> TRUE,
                             blocked |-> upgradeBlocked(node, tt.upgradingToCSI,
                                                        pods)]
              /\ gateTest' = k
    /\ UNCHANGED notGate

InstIdle ==
    /\ runningVersion = "v2"
    /\ clusterNode = NoNode
    /\ info = NewInstanceInfo("10.0.0.1", "Administrator", "", NoNode)
    /\ pc = "idle"
    /\ upToDate = FALSE
    /\ upgradeRequired = FALSE
    /\ gate = "notEvaluated"
    /\ host = [version |-> "none", steps |-> 0]
    /\ touched = 0
    /\ result = "none"

GateInit ==
    /\ gateIn \in [node : GateNodes, upgradingToCSI : BOOLEAN,
                    podStats : SUBSET VolumeStats]
    /\ gateOut = [called |-> FALSE, blocked |-> FALSE]
    /\ gateTest = 0

InitGate ==
    /\ GateInit
    /\ InstIdle
    /\ SshIdle
    /\ PatchIdle
    /\ TransIdle
    /\ CertIdle
    /\ EnvVarIdle

NextGate ==
    \/ CallUpgradeBlocked
    \/ RunTestCase

SpecGate == InitGate /\ [][NextGate]_vars

-----------------------------------------------------------------------------
(* Claims about the upgrade gate *)

\* an attached volume of the node is referenced by an in-tree volume of the
\* stats
InTreeVolumeAttached(node, podStats) ==
    \E s \in podStats : s.inTree /\ s.pvc \in node.volumesAttached

\* C8: upgradeBlocked is true exactly when the node lacks the CSI configured
\* marker label, migratingToNewDriver is true and an attached volume of the
\* node is referenced by an in-tree volume of the stats; so it is false
\* whenever migratingToNewDriver is false and whenever the node has the marker.
C8_UpgradeBlockedIff ==
    gateOut.called =>
        /\ gateOut.blocked =
              (/\ CSIConfiguredLabel \notin gateIn.node.labels
               /\ gateIn.upgradingToCSI
               /\ InTreeVolumeAttached(gateIn.node, gateIn.podStats))
        /\ (~gateIn.upgradingToCSI => ~gateOut.blocked)
        /\ (CSIConfiguredLabel \in gateIn.node.labels => ~gateOut.blocked)

\* C8 witness: the gate blocked a node without marker with an attached
\* in-tree volume
C8_Witness ==
    /\ gateOut.called
    /\ gateOut.blocked
    /\ InTreeVolumeAttached(gateIn.node, gateIn.podStats)

\* C9: for a node with no attached volumes upgradeBlocked is false whatever
\* the marker, migratingToNewDriver and the pod stats are, and every case of
\* TestUpgradeBlocked, whose node has no attached volumes, gets the value the
\* test expects.
C9_NoAttachedNeverBlocked ==
    /\ (gateOut.called /\ gateIn.node.volumesAttached = {}) => ~gateOut.blocked
    /\ gateTest # 0 =>
          /\ gateOut.called
          /\ gateIn.node.volumesAttached = {}
          /\ gateOut.blocked = TestUpgradeBlockedCases[gateTest].expected

\* C9 witness: the test case without marker, upgrading to CSI, with an in-tree
\* PVC-backed volume mounted by a pod but not attached, was not blocked
C9_Witness ==
    /\ gateTest = 2
    /\ gateOut.called
    /\ ~gateOut.blocked
    /\ CSIConfiguredLabel \notin gateIn.node.labels
    /\ gateIn.upgradingToCSI
    /\ gateIn.node.volumesAttached = {}
    /\ \E s \in gateIn.podStats : s.inTree

-----------------------------------------------------------------------------
(* pkg/windows: sshConnectivity.init *)

\* the poll interval init passes to wait.PollImmediate, in minutes
PollInterval == 1

\* retry.Timeout, the overall timeout init passes to wait.PollImmediate, in
\* minutes
RetryTimeout == 3

\* the clients a successful ssh.Dial returns
Clients == {"client1", "client2"}

\* a nil error
NilErr == <<>>

\* the messages of the errors ssh.Dial returns, as the fragments they consist of
DialErrors ==
    { <<"dial tcp 10.0.0.1:22: connect: ", "connection refused">>,
      <<"dial tcp 10.0.0.1:22: ", "i/o timeout">>,
      <<"ssh: handshake failed: ssh: ", "unable to authenticate",
        ", attempted methods [none publickey], no supported methods remain">> }

\* what ssh.Dial returns: a client and a nil error, or no client and an error
DialOutcomes ==
    {[client |-> c, err |-> NilErr] : c \in Clients}
    \cup {[client |-> "nil", err |-> m] : m \in DialErrors}

\* strings.Contains(s, substr) on a message given by its fragments
StringsContains(s, substr) == \E k \in DOMAIN s : s[k] = substr

\* newAuthErr(err): an AuthErr holding the message of err
newAuthErr(err) == <<[kind |-> "AuthErr", err |-> err]>>

\* fmt.Errorf(text + ": %w", err): an error wrapping err
Errorf(text, err) == <<[kind |-> "wrapError", err |-> <<text>>]>> \o err

\* wait.ErrWaitTimeout
ErrWaitTimeout ==
    <<[kind |-> "ErrWaitTimeout", err |-> <<"timed out waiting for the condition">>]>>

\* errors.As(err, *AuthErr): some error of the chain is an AuthErr
IsAuthErr(err) == \E k \in DOMAIN err : err[k].kind = "AuthErr"

\* mutant: every dial error ends the poll, returned as it is
pollCondition_failFast(outcome) ==
    IF outcome.err = NilErr THEN [done |-> TRUE, err |-> NilErr]
    ELSE IF StringsContains(outcome.err, "unable to authenticate")
         THEN [done |-> FALSE, err |-> newAuthErr(outcome.err)]
    ELSE [done |-> FALSE,
          err |-> <<[kind |-> "dialError", err |-> outcome.err]>>]

\* mutant: an authentication failure is retried like any other dial error
pollCondition_authRetried(outcome) ==
    IF outcome.err = NilErr THEN [done |-> TRUE, err |-> NilErr]
    ELSE [done |-> FALSE, err |-> NilErr]

\* the condition function init gives wait.PollImmediate, applied to what
\* ssh.Dial returned: (done, err)
pollCondition(outcome) ==
    IF outcome.err = NilErr THEN [done |-> TRUE, err |-> NilErr]
    ELSE IF StringsContains(outcome.err, "unable to authenticate")
         THEN [done |-> FALSE, err |-> newAuthErr(outcome.err)]
    ELSE [done |-> FALSE, err |-> NilErr]

\* mutant: the poll gives up after the first interval
PollExpired_early(t) == t + PollInterval > PollInterval

\* wait.PollImmediate: no further tick fits into the timeout after minute t
PollExpired(t) == t + PollInterval > RetryTimeout

\* init is entered: incomplete connection information is refused, otherwise
\* wait.PollImmediate is entered, which calls the condition at once
InitEnter ==
    /\ sshPc = "new"
    /\ IF conn.username = "" \/ conn.ipAddress = "" \/ conn.signer = "nil"
       THEN /\ initErr' = <<[kind |-> "errorString",
                             err |-> <<"incomplete sshConnectivity information">>]>>
            /\ sshPc' = "done"
       ELSE /\ initErr' = NilErr
            /\ sshPc' = "dial"
    /\ UNCHANGED <<conn, elapsed, dials, cancelled>>
    /\ UNCHANGED notSsh

\* one call of the condition: ssh.Dial, and what wait.PollImmediate and init
\* do with its result
Dial ==
    /\ sshPc = "dial"
    /\ \E outcome \in DialOutcomes :
          LET r == pollCondition(outcome)
          IN  /\ dials' = Append(dials, outcome)
              /\ IF r.err # NilErr
                 THEN \* the poll returns the error, init wraps it
                      /\ initErr' = Errorf("unable to connect to Windows VM", r.err)
                      /\ sshPc' = "done"
                      /\ UNCHANGED conn
                 ELSE IF r.done
                 THEN \* the poll returns nil, init stores the client
                      /\ initErr' = NilErr
                      /\ conn' = [conn EXCEPT !.sshClient = outcome.client]
                      /\ sshPc' = "done"
                 ELSE \* the poll waits for its next tick
                      /\ sshPc' = "wait"
                      /\ UNCHANGED <<conn, initErr>>
    /\ UNCHANGED <<elapsed, cancelled>>
    /\ UNCHANGED notSsh

\* the next tick of the poll
Tick ==
    /\ sshPc = "wait"
    /\ ~PollExpired(elapsed)
    /\ elapsed' = elapsed + PollInterval
    /\ sshPc' = "dial"
    /\ UNCHANGED <<conn, dials, initErr, cancelled>>
    /\ UNCHANGED notSsh

\* the timeout of the poll: it returns ErrWaitTimeout, init wraps it
TimeOut ==
    /\ sshPc = "wait"
    /\ PollExpired(elapsed)
    /\ initErr' = Errorf("unable to connect to Windows VM", ErrWaitTimeout)
    /\ sshPc' = "done"
    /\ UNCHANGED <<conn, elapsed, dials, cancelled>>
    /\ UNCHANGED notSsh

\* the caller gives up while init is polling; init takes no context and
\* wait.PollImmediate is given none, so nothing in the loop reads this
Cancel ==
    /\ sshPc \in {"dial", "wait"}
    /\ ~cancelled
    /\ cancelled' = TRUE
    /\ UNCHANGED <<conn, sshPc, elapsed, dials, initErr>>
    /\ UNCHANGED notSsh

SshInit ==
    /\ conn \in [username : {"", "Administrator"}, ipAddress : {"", "10.0.0.1"},
                  signer : {"nil", "key"}, sshClient : {"nil"}]
    /\ sshPc = "new"
    /\ elapsed = 0
    /\ dials = <<>>
    /\ initErr = NilErr
    /\ cancelled = FALSE

InitConnect ==
    /\ SshInit
    /\ InstIdle
    /\ GateIdle
    /\ PatchIdle
    /\ TransIdle
    /\ CertIdle
    /\ EnvVarIdle

NextConnect ==
    \/ InitEnter
    \/ Dial
    \/ Tick
    \/ TimeOut
    \/ Cancel

SpecConnect == InitConnect /\ [][NextConnect]_vars

\* the scheduler runs init, the poll's timer fires and every ssh.Dial returns
FairSpecConnect == SpecConnect /\ WF_vars(NextConnect)

-----------------------------------------------------------------------------
(* Claims about sshConnectivity.init *)

\* the dial failed for a reason other than rejected credentials
TransientFailure(o) ==
    o.err # NilErr /\ ~StringsContains(o.err, "unable to authenticate")

\* the dial failed because the credentials were rejected
AuthFailure(o) ==
    o.err # NilErr /\ StringsContains(o.err, "unable to authenticate")

\* C4 (state part): a successful dial after any number of transient failures
\* makes init return nil with the dialed client stored; a transient failure
\* with time left in the timeout does not end init
C4_RetryInv ==
    /\ \A k \in DOMAIN dials :
          (dials[k].err = NilErr /\ \A j \in 1..(k-1) : TransientFailure(dials[j]))
            => /\ k = Len(dials)
               /\ sshPc = "done"
               /\ initErr = NilErr
               /\ ~IsAuthErr(initErr)
               /\ conn.sshClient = dials[k].client
               /\ conn.sshClient # "nil"
    /\ (/\ dials # <<>>
        /\ \A j \in DOMAIN dials : TransientFailure(dials[j])
        /\ ~PollExpired(elapsed))
          => sshPc \in {"wait", "dial"}

\* C4: connection establishment tolerates transient failures: n consecutive
\* non-authentication dial failures followed by a successful dial before the
\* timeout give success with the client of the successful dial and no
\* authentication error.
C4_ToleratesTransientFailures == C4_RetryInv

\* C4 witness: two transient failures, then a successful dial, and init
\* returned nil with that client stored
C4_Witness ==
    /\ sshPc = "done"
    /\ Len(dials) = 3
    /\ TransientFailure(dials[1])
    /\ TransientFailure(dials[2])
    /\ dials[3].err = NilErr
    /\ initErr = NilErr
    /\ conn.sshClient = dials[3].client

\* C5: a dial rejected for its credentials, the first or a later one, ends
\* init at once with an error that is an AuthErr; no dial follows it and no
\* client is stored.
C5_AuthFailureEndsInit ==
    \A k \in DOMAIN dials :
        AuthFailure(dials[k])
          => /\ k = Len(dials)
             /\ sshPc = "done"
             /\ IsAuthErr(initErr)
             /\ conn.sshClient = "nil"

\* C5 witness: credentials rejected at the third dial after two transient
\* failures
C5_Witness ==
    /\ Len(dials) = 3
    /\ TransientFailure(dials[1])
    /\ TransientFailure(dials[2])
    /\ AuthFailure(dials[3])
    /\ sshPc = "done"
    /\ IsAuthErr(initErr)

\* init returned the timeout of the poll
IsTimeoutErr(err) == \E k \in DOMAIN err : err[k].kind = "ErrWaitTimeout"

\* C6 (state part): while every dial fails with a non-authentication error
\* the dials are one poll interval apart, init ends only with the timeout
\* elapsed and then returns a timeout error with no client stored; init never
\* returns nil or stores a client without a successful last dial
C6_TimeoutInv ==
    /\ (dials # <<>> /\ \A j \in DOMAIN dials : TransientFailure(dials[j]))
          => /\ elapsed = (IF sshPc = "dial" THEN Len(dials) ELSE Len(dials) - 1)
                                * PollInterval
             /\ sshPc = "done"
                  => /\ elapsed + PollInterval > RetryTimeout
                     /\ elapsed <= RetryTimeout
                     /\ IsTimeoutErr(initErr)
                     /\ ~IsAuthErr(initErr)
                     /\ conn.sshClient = "nil"
    /\ conn.sshClient # "nil"
          => dials # <<>> /\ dials[Len(dials)].client = conn.sshClient
    /\ (sshPc = "done" /\ initErr = NilErr)
          => dials # <<>> /\ dials[Len(dials)].err = NilErr
    /\ Len(dials) <= RetryTimeout \div PollInterval + 1

\* C6: connection establishment always terminates: with every dial failing
\* with a non-authentication error the dials go on at the poll interval until
\* the timeout elapses and init returns a terminal error with no client
\* stored; init always returns, and never returns success without a
\* successful dial.
C6_AlwaysTerminates ==
    /\ []C6_TimeoutInv
    /\ <>(sshPc = "done")

\* C6 witness: every dial up to the timeout failed and init returned the
\* timeout error
C6_Witness ==
    /\ sshPc = "done"
    /\ Len(dials) = RetryTimeout \div PollInterval + 1
    /\ \A j \in DOMAIN dials : TransientFailure(dials[j])
    /\ IsTimeoutErr(initErr)
    /\ conn.sshClient = "nil"

-----------------------------------------------------------------------------
(* pkg/annotations: the patch builder *)

\* longest annotation key of the model, in characters
MaxKeyLen == 2

\* most entries of one map or key list given to the builder
MaxKeys == 2

\* the characters annotation keys are made of
Chars == {"/", "~", "1"}

\* annotation keys: strings of up to MaxKeyLen characters, the empty one too
PatchKeys == UNION {[1..n -> Chars] : n \in 0..MaxKeyLen}

\* annotation values
PatchValues == {"", "v"}

\* sets of at most n of the given elements
RECURSIVE SetsUpTo(_, _)
SetsUpTo(S, n) ==
    IF n = 0 THEN {{}}
    ELSE LET P == SetsUpTo(S, n - 1)
         IN  P \cup {T \cup {e} : T \in P, e \in S}

\* sequences without repetition that list exactly the elements of S
OrdersOf(S) ==
    {o \in [1..Cardinality(S) -> S] : \A e \in S : \E k \in DOMAIN o : o[k] = e}

\* errors.New(text)
ErrorsNew(text) == <<[kind |-> "errorString", err |-> <<text>>]>>

\* strings.Replace(key, "/", "~1", -1) on a string given by its characters
RECURSIVE ReplaceSlash(_)
ReplaceSlash(key) ==
    IF key = <<>> THEN <<>>
    ELSE (IF Head(key) = "/" THEN <<"~", "1">> ELSE <<Head(key)>>)
         \o ReplaceSlash(Tail(key))

\* mutant: the key is put into the path as it is
formatPathValue_noEscape(key) ==
    <<"/", "metadata", "/", "annotations", "/">> \o key

\* formatPathValue(key): "/metadata/annotations/" followed by the escaped key
formatPathValue(key) ==
    <<"/", "metadata", "/", "annotations", "/">> \o ReplaceSlash(key)

\* patch.NewJSONPatch(op, path, value)
NewJSONPatch(op, path, value) == [op |-> op, path |-> path, value |-> value]

\* mutant: an empty map is not refused, an empty document is returned
generateAnnotationPatch_noEmptyCheck(op, annotations, order) ==
    [returned |-> TRUE,
     data |-> [k \in DOMAIN order |->
                  NewJSONPatch(op, formatPathValue(order[k]), annotations[order[k]])],
     isNil |-> FALSE,
     err |-> NilErr]

\* generateAnnotationPatch(op, annotations); order is the order in which
\* range visits the keys of the map
generateAnnotationPatch(op, annotations, order) ==
    IF Cardinality(DOMAIN annotations) = 0
    THEN [returned |-> TRUE, data |-> <<>>, isNil |-> TRUE,
          err |-> ErrorsNew("annotations to format cannot be empty or nil")]
    ELSE [returned |-> TRUE,
          data |-> [k \in DOMAIN order |->
                       NewJSONPatch(op, formatPathValue(order[k]),
                                    annotations[order[k]])],
          isNil |-> FALSE,
          err |-> NilErr]

\* GenerateAddPatch(annotations)
GenerateAddPatch(annotations, order) ==
    generateAnnotationPatch("add", annotations, order)

\* the map GenerateRemovePatch builds from its key list
RemoveAnnotationMap(keys) == [a \in {keys[k] : k \in DOMAIN keys} |-> ""]

\* GenerateRemovePatch(annotations)
GenerateRemovePatch(keys, order) ==
    generateAnnotationPatch("remove", RemoveAnnotationMap(keys), order)

\* a call of GenerateAddPatch with the map drawn initially
CallGenerateAddPatch ==
    /\ ~patchOut.returned
    /\ patchIn.fn = "GenerateAddPatch"
    /\ \E order \in OrdersOf(DOMAIN patchIn.annotations) :
          patchOut' = GenerateAddPatch(patchIn.annotations, order)
    /\ UNCHANGED <<patchIn, obj, applyLog>>
    /\ UNCHANGED notPatch

\* a call of GenerateRemovePatch with the key list drawn initially
CallGenerateRemovePatch ==
    /\ ~patchOut.returned
    /\ patchIn.fn = "GenerateRemovePatch"
    /\ \E order \in OrdersOf(DOMAIN RemoveAnnotationMap(patchIn.keys)) :
          patchOut' = GenerateRemovePatch(patchIn.keys, order)
    /\ UNCHANGED <<patchIn, obj, applyLog>>
    /\ UNCHANGED notPatch

\* the arguments of GenerateAddPatch: a nil map, or a map of up to MaxKeys keys
AddInputs ==
    {[fn |-> "GenerateAddPatch", isNil |-> TRUE, annotations |-> <<>>,
      keys |-> <<>>]}
    \cup {[fn |-> "GenerateAddPatch", isNil |-> FALSE, annotations |-> m,
           keys |-> <<>>] :
            m \in UNION {[D -> PatchValues] : D \in SetsUpTo(PatchKeys, MaxKeys)}}

\* the arguments of GenerateRemovePatch: a nil list, or a list of up to MaxKeys
\* keys, repetitions allowed
RemoveInputs ==
    {[fn |-> "GenerateRemovePatch", isNil |-> TRUE, annotations |-> <<>>,
      keys |-> <<>>]}
    \cup {[fn |-> "GenerateRemovePatch", isNil |-> FALSE, annotations |-> <<>>,
           keys |-> l] :
            l \in UNION {[1..n -> PatchKeys] : n \in 0..MaxKeys}}

PatchInit ==
    /\ patchIn \in AddInputs \cup RemoveInputs
    /\ patchOut = [returned |-> FALSE, data |-> <<>>, isNil |-> TRUE,
                   err |-> NilErr]
    /\ obj = <<>>
    /\ applyLog = <<>>

InitPatch ==
    /\ PatchInit
    /\ InstIdle
    /\ GateIdle
    /\ SshIdle
    /\ TransIdle
    /\ CertIdle
    /\ EnvVarIdle

NextPatch ==
    \/ CallGenerateAddPatch
    \/ CallGenerateRemovePatch

SpecPatch == InitPatch /\ [][NextPatch]_vars

-----------------------------------------------------------------------------
(* Claims about the patch builder *)

\* the map or key list given to the builder is nil or has no entries
PatchInputEmpty ==
    IF patchIn.fn = "GenerateAddPatch"
    THEN patchIn.isNil \/ DOMAIN patchIn.annotations = {}
    ELSE patchIn.isNil \/ Len(patchIn.keys) = 0

\* C10 (state part): on an empty or nil input the builder returned an error
\* and no document; on every other input a document and no error
C10_EmptyInputInv ==
    patchOut.returned =>
        IF PatchInputEmpty
        THEN patchOut.err # NilErr /\ patchOut.isNil /\ patchOut.data = <<>>
        ELSE patchOut.err = NilErr /\ ~patchOut.isNil /\ Len(patchOut.data) >= 1

\* C10: GenerateAddPatch on an empty or nil map and GenerateRemovePatch on an
\* empty or nil key list return an error and no patch document, and change
\* nothing but their return value; on every non-empty input they return a
\* document and no error.
C10_EmptyInputRefused ==
    /\ []C10_EmptyInputInv
    /\ [][patchOut' # patchOut
            => (patchIn' = patchIn /\ UNCHANGED notPatch)]_vars

\* C10 witness: GenerateRemovePatch was called with an empty, non-nil key list
\* and returned an error and no document
C10_Witness ==
    /\ patchOut.returned
    /\ patchIn.fn = "GenerateRemovePatch"
    /\ ~patchIn.isNil
    /\ patchIn.keys = <<>>
    /\ patchOut.err # NilErr
    /\ patchOut.isNil

\* C10 second scenario: GenerateAddPatch returned a document for a map of two
\* keys
C10_NonEmptyAdd ==
    /\ patchOut.returned
    /\ patchIn.fn = "GenerateAddPatch"
    /\ Cardinality(DOMAIN patchIn.annotations) = 2
    /\ patchOut.err = NilErr
    /\ Len(patchOut.data) = 2

-----------------------------------------------------------------------------
(* C11: the shape of a generated document *)

\* the keys named by the argument of the call
PatchInputKeys ==
    IF patchIn.fn = "GenerateAddPatch"
    THEN DOMAIN patchIn.annotations
    ELSE {patchIn.keys[k] : k \in DOMAIN patchIn.keys}

\* the value the call pairs with a key
PatchInputValue(key) ==
    IF patchIn.fn = "GenerateAddPatch" THEN patchIn.annotations[key] ELSE ""

PatchOp == IF patchIn.fn = "GenerateAddPatch" THEN "add" ELSE "remove"

AnnotationsPrefix == <<"/", "metadata", "/", "annotations", "/">>

\* the part of a path after the annotations prefix
PathSegment(path) == SubSeq(path, Len(AnnotationsPrefix) + 1, Len(path))

\* number of '/' among the first n characters of key
SlashesBefore(key, n) == Cardinality({j \in 1..n : key[j] = "/"})

\* segment is key with every '/' written as "~1" and all else kept in place
EscapesKey(segment, key) ==
    /\ Len(segment) = Len(key) + SlashesBefore(key, Len(key))
    /\ \A i \in 1..Len(key) :
          LET at == i + SlashesBefore(key, i - 1)
          IN  IF key[i] = "/"
              THEN segment[at] = "~" /\ segment[at + 1] = "1"
              ELSE segment[at] = key[i]

\* op is the operation of the document that stands for key
OperationFor(op, key) ==
    /\ op.op = PatchOp
    /\ op.value = PatchInputValue(key)
    /\ SubSeq(op.path, 1, Len(AnnotationsPrefix)) = AnnotationsPrefix
    /\ EscapesKey(PathSegment(op.path), key)

\* C11: a document generated from a non-empty input has one operation per
\* input key; each path is the annotations prefix followed by one segment
\* in which every '/' of the key is written "~1", so that the segment holds
\* no separator of its own
C11_OneEscapedOperationPerKey ==
    (patchOut.returned /\ PatchInputKeys # {})
        => /\ patchOut.err = NilErr
           /\ Len(patchOut.data) = Cardinality(PatchInputKeys)
           /\ \A key \in PatchInputKeys :
                 \E k \in DOMAIN patchOut.data :
                     OperationFor(patchOut.data[k], key)
           /\ \A k \in DOMAIN patchOut.data :
                 /\ \E key \in PatchInputKeys :
                       OperationFor(patchOut.data[k], key)
                 /\ \A j \in DOMAIN PathSegment(patchOut.data[k].path) :
                       PathSegment(patchOut.data[k].path)[j] # "/"

\* a document was generated for two keys, one of them holding a '/'
C11_Witness ==
    /\ patchOut.returned
    /\ Cardinality(PatchInputKeys) = 2
    /\ \E key \in PatchInputKeys : \E j \in DOMAIN key : key[j] = "/"

-----------------------------------------------------------------------------
(* Application of a generated document to an object's annotations *)

\* number of times the generated document is sent for the same object
MaxApplies == 2

\* annotation keys of the objects patched: a key holding the separator, a
\* key holding the separator's escape sequence, and a key holding neither
ApplyKeys == {<<"/">>, <<"~", "1">>, <<"1">>}

\* the key a path segment stands for: "~1" is read back as '/'
RECURSIVE DecodeSegment(_)
DecodeSegment(segment) ==
    IF segment = <<>> THEN <<>>
    ELSE IF Len(segment) >= 2 /\ segment[1] = "~" /\ segment[2] = "1"
         THEN <<"/">> \o DecodeSegment(SubSeq(segment, 3, Len(segment)))
         ELSE <<Head(segment)>> \o DecodeSegment(Tail(segment))

\* the operations of a document applied in order to a copy of the
\* annotations: "add" overwrites an existing value, "remove" of a key that
\* does not exist is an error
RECURSIVE ApplyOperations(_, _)
ApplyOperations(ops, anns) ==
    IF ops = <<>> THEN [err |-> NilErr, anns |-> anns]
    ELSE LET op == Head(ops)
             key == DecodeSegment(PathSegment(op.path))
         IN  IF op.op = "add"
             THEN ApplyOperations(Tail(ops), (key :> op.value) @@ anns)
             ELSE IF key \in DOMAIN anns
                  THEN ApplyOperations(Tail(ops),
                           [a \in DOMAIN anns \ {key} |-> anns[a]])
                  ELSE [err |-> ErrorsNew("remove operation does not apply"),
                        anns |-> anns]

\* a document applied transactionally: the object changes only if every
\* operation applied
ApplyDocument(data, anns) ==
    LET r == ApplyOperations(data, anns)
    IN  IF r.err = NilErr THEN r ELSE [err |-> r.err, anns |-> anns]

\* the generated document is sent for the object
ApplyPatch ==
    /\ patchOut.returned
    /\ patchOut.err = NilErr
    /\ Len(applyLog) < MaxApplies
    /\ LET r == ApplyDocument(patchOut.data, obj)
       IN  /\ obj' = r.anns
           /\ applyLog' = Append(applyLog, [before |-> obj, after |-> r.anns,
                                            err |-> r.err])
    /\ UNCHANGED <<patchIn, patchOut>>
    /\ UNCHANGED notPatch

ApplyAddInputs ==
    {[fn |-> "GenerateAddPatch", isNil |-> FALSE, annotations |-> m,
      keys |-> <<>>] :
        m \in UNION {[S -> PatchValues] : S \in SetsUpTo(ApplyKeys, MaxKeys)}}

ApplyRemoveInputs ==
    {[fn |-> "GenerateRemovePatch", isNil |-> FALSE, annotations |-> <<>>,
      keys |-> l] :
        l \in UNION {[1..n -> ApplyKeys] : n \in 0..MaxKeys}}

ApplyInit ==
    /\ patchIn \in ApplyAddInputs \cup ApplyRemoveInputs
    /\ patchOut = [returned |-> FALSE, data |-> <<>>, isNil |-> TRUE,
                   err |-> NilErr]
    /\ obj \in UNION {[S -> PatchValues] : S \in SUBSET ApplyKeys}
    /\ applyLog = <<>>

InitApply ==
    /\ ApplyInit
    /\ InstIdle
    /\ GateIdle
    /\ SshIdle
    /\ TransIdle
    /\ CertIdle
    /\ EnvVarIdle

NextApply ==
    \/ CallGenerateAddPatch
    \/ CallGenerateRemovePatch
    \/ ApplyPatch

SpecApply == InitApply /\ [][NextApply]_vars

-----------------------------------------------------------------------------
(* C12, C13: what applying a generated document does to the object *)

\* anns without the given keys
WithoutKeys(anns, keys) == [a \in DOMAIN anns \ keys |-> anns[a]]

\* anns with every key of m set to m's value
Upserted(anns, m) == m @@ anns

\* C12: applying a remove document is all-or-nothing over the keys it was
\* generated for: if one of them is absent from the object the application
\* fails and the annotations stay as they were, otherwise exactly those
\* keys are removed and every other annotation is kept
C12_RemoveAllOrNothing ==
    patchIn.fn = "GenerateRemovePatch"
        => \A n \in DOMAIN applyLog :
              LET e == applyLog[n]
              IN  IF PatchInputKeys \subseteq DOMAIN e.before
                  THEN /\ e.err = NilErr
                       /\ e.after = WithoutKeys(e.before, PatchInputKeys)
                  ELSE /\ e.err # NilErr
                       /\ e.after = e.before

\* C13: applying an add document always succeeds, leaves every key of the
\* map it was generated for at the map's value and every other annotation
\* as it was, and changes nothing when applied a second time
C13_AddIdempotentUpsert ==
    patchIn.fn = "GenerateAddPatch"
        => \A n \in DOMAIN applyLog :
              LET e == applyLog[n]
              IN  /\ e.err = NilErr
                  /\ e.after = Upserted(e.before, patchIn.annotations)
                  /\ n > 1 => e.after = e.before

-----------------------------------------------------------------------------
(* C14: when the pass writes the version annotation *)

\* the step taken is a step of the pass, not a change made in the cluster
PassStep == pc' # pc \/ touched' # touched \/ result' # result

\* every configuration step of this pass was run on the host and succeeded
HostFullyConfigured ==
    host = [version |-> runningVersion, steps |-> NSteps]

\* the pass wrote the running version into the Node's version annotation
PassAnnotated ==
    /\ PassStep
    /\ clusterNode' # clusterNode

\* a pass writes the Node only once all its steps succeeded, and what it
\* writes is the running version
C14_AnnotatedAfterAllSteps ==
    PassAnnotated
        => /\ touched = NSteps
           /\ HostFullyConfigured
           /\ clusterNode' # NoNode
           /\ GetAnnotation(clusterNode', VersionAnnotation)
                  = [present |-> TRUE, value |-> runningVersion]
           /\ UpToDate(NewInstanceInfo("10.0.0.1", "Administrator", "",
                                       clusterNode'), runningVersion)

\* a pass that fails leaves the Node, and so the annotation, as it was
C14_FailureLeavesAnnotation ==
    (PassStep /\ result' = "Failed") => clusterNode' = clusterNode

\* a pass that reports the instance configured either found it up to date
\* or ran every step on the host
C14_ConfiguredMeansComplete ==
    (result = "Configured") => (upToDate \/ HostFullyConfigured)

-----------------------------------------------------------------------------
(* sshConnectivity.run and sshConnectivity.transfer *)

\* number of pieces io.Copy writes the content in
FileChunks == 2

\* io.EOF
EOF == <<[kind |-> "EOF", err |-> <<"EOF">>]>>

\* errors.Is(err, io.EOF)
IsEOF(err) == \E k \in DOMAIN err : err[k].kind = "EOF"

\* the error of a failed operation on the VM
RemoteErr(op) == <<[kind |-> "remoteError", err |-> <<op>>]>>

\* combined stdout and stderr of a command
Outputs == {"", "output"}

RunCalls ==
    [fn : {"run"}, sshClient : {"nil", "client"}, cmd : {"hostname", "exit 1"},
     filename : {""}, remoteDir : {""}]

TransferCalls ==
    [fn : {"transfer"}, sshClient : {"nil", "client"}, cmd : {""},
     filename : {"wmcb.exe", "kubelet.exe"}, remoteDir : {"C:\\k", "C:\\Temp"}]

\* the function returns without a deferred call to run first
ReturnNow(out, err) ==
    /\ tRet' = [returned |-> TRUE, out |-> out, err |-> err]
    /\ tPc' = "done"

\* run: the nil check on c.sshClient
RunEnter ==
    /\ tPc = "call"
    /\ tCall.fn = "run"
    /\ IF tCall.sshClient = "nil"
       THEN ReturnNow("", ErrorsNew("run cannot be called with nil SSH client"))
       ELSE tPc' = "NewSession" /\ UNCHANGED tRet
    /\ UNCHANGED <<tCall, handles, remote, tLog, tOps>>
    /\ UNCHANGED notTrans

\* mutant: a session that cannot be opened is asked for once more
NewSession_retry ==
    /\ tPc = "NewSession"
    /\ tOps' = Append(tOps, "NewSession")
    /\ \E ok \in BOOLEAN :
          IF ok
          THEN /\ handles' = [handles EXCEPT !.session = "open"]
               /\ tPc' = "CombinedOutput"
               /\ UNCHANGED tRet
          ELSE IF tOps = <<>>
          THEN UNCHANGED <<tPc, tRet, handles>>
          ELSE /\ ReturnNow("", RemoteErr("NewSession"))
               /\ UNCHANGED handles
    /\ UNCHANGED <<tCall, remote, tLog>>
    /\ UNCHANGED notTrans

\* run: c.sshClient.NewSession()
NewSession ==
    /\ tPc = "NewSession"
    /\ tOps' = Append(tOps, "NewSession")
    /\ \E ok \in BOOLEAN :
          IF ok
          THEN /\ handles' = [handles EXCEPT !.session = "open"]
               /\ tPc' = "CombinedOutput"
               /\ UNCHANGED tRet
          ELSE /\ ReturnNow("", RemoteErr("NewSession"))
               /\ UNCHANGED handles
    /\ UNCHANGED <<tCall, remote, tLog>>
    /\ UNCHANGED notTrans

\* run: session.CombinedOutput(cmd) and the return statement; the Run inside
\* CombinedOutput may already have closed the session
CombinedOutput ==
    /\ tPc = "CombinedOutput"
    /\ tOps' = Append(tOps, "CombinedOutput")
    /\ \E out \in Outputs, ok \in BOOLEAN, closes \in BOOLEAN :
          /\ tRet' = [returned |-> FALSE, out |-> out,
                      err |-> IF ok THEN NilErr ELSE RemoteErr("CombinedOutput")]
          /\ handles' = [handles EXCEPT
                            !.session = IF closes THEN "closed" ELSE "open"]
    /\ tPc' = "deferSessionClose"
    /\ UNCHANGED <<tCall, remote, tLog>>
    /\ UNCHANGED notTrans

\* run: the deferred session.Close(); an error other than io.EOF is logged
SessionClose ==
    /\ tPc = "deferSessionClose"
    /\ \E err \in (IF handles.session = "closed"
                    THEN {EOF}
                    ELSE {NilErr, RemoteErr("session.Close")}) :
          tLog' = IF err # NilErr /\ ~IsEOF(err)
                  THEN Append(tLog, "error closing SSH session")
                  ELSE tLog
    /\ handles' = [handles EXCEPT !.session = "closed"]
    /\ tRet' = [tRet EXCEPT !.returned = TRUE]
    /\ tPc' = "done"
    /\ UNCHANGED <<tCall, remote, tOps>>
    /\ UNCHANGED notTrans

\* transfer: the nil check on c.sshClient
TransferEnter ==
    /\ tPc = "call"
    /\ tCall.fn = "transfer"
    /\ IF tCall.sshClient = "nil"
       THEN ReturnNow("", ErrorsNew("transfer cannot be called with nil SSH client"))
       ELSE tPc' = "NewClient" /\ UNCHANGED tRet
    /\ UNCHANGED <<tCall, handles, remote, tLog, tOps>>
    /\ UNCHANGED notTrans

\* the return statement of transfer once ftp.Close() is deferred
ReturnDeferred(err) ==
    /\ tRet' = [returned |-> FALSE, out |-> "", err |-> err]
    /\ tPc' = "deferFtpClose"

\* transfer: sftp.NewClient(c.sshClient)
NewClient ==
    /\ tPc = "NewClient"
    /\ tOps' = Append(tOps, "NewClient")
    /\ \E ok \in BOOLEAN :
          IF ok
          THEN /\ handles' = [handles EXCEPT !.ftp = "open"]
               /\ tPc' = "MkdirAll"
               /\ UNCHANGED tRet
          ELSE /\ ReturnNow("", RemoteErr("NewClient"))
               /\ UNCHANGED handles
    /\ UNCHANGED <<tCall, remote, tLog>>
    /\ UNCHANGED notTrans

\* transfer: ftp.MkdirAll(remoteDir)
MkdirAll ==
    /\ tPc = "MkdirAll"
    /\ tOps' = Append(tOps, "MkdirAll")
    /\ \E ok \in BOOLEAN :
          IF ok
          THEN /\ remote' = [remote EXCEPT !.dir = TRUE]
               /\ tPc' = "Create"
               /\ UNCHANGED tRet
          ELSE /\ ReturnDeferred(Errorf("error creating remote directory",
                                        RemoteErr("MkdirAll")))
               /\ UNCHANGED remote
    /\ UNCHANGED <<tCall, handles, tLog>>
    /\ UNCHANGED notTrans

\* transfer: ftp.Create(remoteFile)
Create ==
    /\ tPc = "Create"
    /\ tOps' = Append(tOps, "Create")
    /\ \E ok \in BOOLEAN :
          IF ok
          THEN /\ remote' = [remote EXCEPT !.file = TRUE, !.written = 0,
                                           !.closed = FALSE]
               /\ handles' = [handles EXCEPT !.file = "open"]
               /\ tPc' = "Copy"
               /\ UNCHANGED tRet
          ELSE /\ ReturnDeferred(Errorf("error initializing file on Windows VM",
                                        RemoteErr("Create")))
               /\ UNCHANGED <<remote, handles>>
    /\ UNCHANGED <<tCall, tLog>>
    /\ UNCHANGED notTrans

\* transfer: io.Copy(dstFile, reader); a failed copy has written only a
\* part of the content, and the function returns with dstFile left open
Copy ==
    /\ tPc = "Copy"
    /\ tOps' = Append(tOps, "Copy")
    /\ \E n \in 0..FileChunks :
          /\ remote' = [remote EXCEPT !.written = n]
          /\ IF n = FileChunks
             THEN tPc' = "FileClose" /\ UNCHANGED tRet
             ELSE ReturnDeferred(Errorf("error copying to the Windows VM",
                                        RemoteErr("Copy")))
    /\ UNCHANGED <<tCall, handles, tLog>>
    /\ UNCHANGED notTrans

\* transfer: dstFile.Close(), whose error is logged, and "return nil"
FileClose ==
    /\ tPc = "FileClose"
    /\ \E ok \in BOOLEAN :
          /\ remote' = [remote EXCEPT !.closed = ok]
          /\ tLog' = IF ok THEN tLog
                     ELSE Append(tLog, "error closing remote file")
    /\ handles' = [handles EXCEPT !.file = "closed"]
    /\ ReturnDeferred(NilErr)
    /\ UNCHANGED <<tCall, tOps>>
    /\ UNCHANGED notTrans

\* transfer: the deferred ftp.Close(), whose error is logged
FtpClose ==
    /\ tPc = "deferFtpClose"
    /\ \E ok \in BOOLEAN :
          tLog' = IF ok THEN tLog
                  ELSE Append(tLog, "error closing FTP connection")
    /\ handles' = [handles EXCEPT !.ftp = "closed"]
    /\ tRet' = [tRet EXCEPT !.returned = TRUE]
    /\ tPc' = "done"
    /\ UNCHANGED <<tCall, remote, tOps>>
    /\ UNCHANGED notTrans

TransInit ==
    /\ tCall \in RunCalls \cup TransferCalls
    /\ tPc = "call"
    /\ handles = [session |-> "none", ftp |-> "none", file |-> "none"]
    /\ remote \in [dir : BOOLEAN, file : BOOLEAN, written : {0},
                    closed : {FALSE}]
    /\ tLog = <<>>
    /\ tOps = <<>>
    /\ tRet = [returned |-> FALSE, out |-> "", err |-> NilErr]

InitTransport ==
    /\ TransInit
    /\ InstIdle
    /\ GateIdle
    /\ SshIdle
    /\ PatchIdle
    /\ CertIdle
    /\ EnvVarIdle

NextTransport ==
    \/ RunEnter
    \/ NewSession
    \/ CombinedOutput
    \/ SessionClose
    \/ TransferEnter
    \/ NewClient
    \/ MkdirAll
    \/ Create
    \/ Copy
    \/ FileClose
    \/ FtpClose

SpecTransport == InitTransport /\ [][NextTransport]_vars

-----------------------------------------------------------------------------
(* C15, C16: what holds when run or transfer has returned *)

\* C15: transfer returns success only if the destination file was written
\* completely and was closed successfully
C15_SuccessMeansWrittenAndClosed ==
    (tRet.returned /\ tCall.fn = "transfer" /\ tRet.err = NilErr)
        => /\ remote.file
           /\ remote.written = FileChunks
           /\ remote.closed

\* C16: when run or transfer has returned, every handle the call opened has
\* been closed
C16_NoHandleLeftOpen ==
    tRet.returned
        => /\ handles.session # "open"
           /\ handles.ftp # "open"
           /\ handles.file # "open"

-----------------------------------------------------------------------------
(* Kubelet CA bundle rotation: the bundle installed on the nodes *)

\* PEM certificate blocks
Certs == {"A", "B"}

\* bundles: lists of distinct blocks, at least one
Bundles == UNION {OrdersOf(S) : S \in SUBSET Certs \ {{}}}

\* the blocks of a bundle
BlocksOf(bundle) == {bundle[k] : k \in DOMAIN bundle}

\* the text of the ConfigMap's CA bundle key: the blocks and a final newline
ConfigMapText(bundle) == bundle \o <<"\n">>

\* strings.TrimSpace on a text given by its blocks and newlines
RECURSIVE TrimSpace(_)
TrimSpace(text) ==
    IF text = <<>> THEN <<>>
    ELSE IF Head(text) = "\n" THEN TrimSpace(Tail(text))
    ELSE IF text[Len(text)] = "\n"
         THEN TrimSpace(SubSeq(text, 1, Len(text) - 1))
         ELSE text

\* strings.Contains(text, substr): substr occurs in text as one piece
TextContains(text, substr) ==
    \E at \in 0..Len(text) :
        /\ at + Len(substr) <= Len(text)
        /\ SubSeq(text, at + 1, at + Len(substr)) = substr

\* mutant: the new bundle replaces the installed one
MergeBundles_replace(prior, new) == new

\* the merged bundle: the prior blocks that the new bundle does not hold,
\* followed by the new bundle
MergeBundles(prior, new) ==
    SelectSeq(prior, LAMBDA b : b \notin BlocksOf(new)) \o new

\* the node's bundle file holds the authoritative content
HasAuthoritative(n) ==
    TextContains(installed[n], TrimSpace(ConfigMapText(authoritative)))

\* the rotation that was forced takes place: the ConfigMap holds a new bundle
Rotate ==
    /\ rotationPending
    /\ \E b \in Bundles \ {authoritative} : authoritative' = b
    /\ rotationPending' = FALSE
    /\ UNCHANGED <<installed, reachable, addresses, testPc, cur, pollElapsed,
                   results, report>>
    /\ UNCHANGED notCert

\* the controller finds that a node's bundle file lacks the authoritative
\* content and transfers the merged bundle to it
InstallBundle(n) ==
    /\ reachable[n]
    /\ ~HasAuthoritative(n)
    /\ installed' = [installed EXCEPT
                        ![n] = MergeBundles(installed[n], authoritative)]
    /\ UNCHANGED <<authoritative, rotationPending, reachable, addresses, testPc,
                   cur, pollElapsed, results, report>>
    /\ UNCHANGED notCert

\* a node stops answering
NodeDown(n) ==
    /\ reachable[n]
    /\ reachable' = [reachable EXCEPT ![n] = FALSE]
    /\ UNCHANGED <<authoritative, rotationPending, installed, addresses, testPc,
                   cur, pollElapsed, results, report>>
    /\ UNCHANGED notCert

\* a node answers again
NodeUp(n) ==
    /\ ~reachable[n]
    /\ reachable' = [reachable EXCEPT ![n] = TRUE]
    /\ UNCHANGED <<authoritative, rotationPending, installed, addresses, testPc,
                   cur, pollElapsed, results, report>>
    /\ UNCHANGED notCert

-----------------------------------------------------------------------------
(* Kubelet CA bundle rotation: testKubeletCARotation *)

\* retry.Interval, in units of itself
RetryInterval == 1

\* the node the loop of the test is at
CurNode == NodeList[cur]

\* mutant: a bundle file that lacks the certificate ends the poll as well
caPollCondition_foundIgnored(bundleContent, fetchErr, cmErr, parseErr, kubeletCABytes) ==
    IF fetchErr # NilErr THEN [done |-> FALSE, err |-> NilErr]
    ELSE IF cmErr # NilErr
    THEN [done |-> FALSE,
          err |-> Errorf("error getting kubelet client CA ConfigMap", cmErr)]
    ELSE IF parseErr # NilErr
    THEN [done |-> FALSE,
          err |-> Errorf("error parsing CA bundle from ConfigMap", parseErr)]
    ELSE [done |-> TRUE, err |-> NilErr]

\* mutant: a bundle file that cannot be fetched ends the poll with an error
caPollCondition_fetchFatal(bundleContent, fetchErr, cmErr, parseErr, kubeletCABytes) ==
    IF fetchErr # NilErr
    THEN [done |-> FALSE, err |-> Errorf("error fetching CA bundle", fetchErr)]
    ELSE IF cmErr # NilErr
    THEN [done |-> FALSE,
          err |-> Errorf("error getting kubelet client CA ConfigMap", cmErr)]
    ELSE IF parseErr # NilErr
    THEN [done |-> FALSE,
          err |-> Errorf("error parsing CA bundle from ConfigMap", parseErr)]
    ELSE [done |-> TextContains(bundleContent, TrimSpace(kubeletCABytes)),
          err |-> NilErr]

\* the condition function given to wait.Poll
caPollCondition(bundleContent, fetchErr, cmErr, parseErr, kubeletCABytes) ==
    IF fetchErr # NilErr THEN [done |-> FALSE, err |-> NilErr]
    ELSE IF cmErr # NilErr
    THEN [done |-> FALSE,
          err |-> Errorf("error getting kubelet client CA ConfigMap", cmErr)]
    ELSE IF parseErr # NilErr
    THEN [done |-> FALSE,
          err |-> Errorf("error parsing CA bundle from ConfigMap", parseErr)]
    ELSE [done |-> TextContains(bundleContent, TrimSpace(kubeletCABytes)),
          err |-> NilErr]

\* wait.Poll gives up once the next tick would come after retry.Timeout
CertPollExpired(t) == t + RetryInterval > RetryTimeout

\* mutant: a failed subtest ends the test, as require.NoError would
FinishNode_require(res) ==
    /\ results' = [results EXCEPT ![CurNode] = res]
    /\ IF cur < Len(NodeList) /\ res = "ok"
       THEN /\ cur' = cur + 1
            /\ testPc' = "node"
            /\ UNCHANGED report
       ELSE /\ testPc' = "done"
            /\ report' = IF \A n \in WinNodes : results'[n] = "ok"
                         THEN "passed" ELSE "failed"
            /\ UNCHANGED cur

\* the subtest of the current node ends with res; assert.NoErrorf records a
\* failure and the loop goes on to the next node
FinishNode(res) ==
    /\ results' = [results EXCEPT ![CurNode] = res]
    /\ IF cur < Len(NodeList)
       THEN /\ cur' = cur + 1
            /\ testPc' = "node"
            /\ UNCHANGED report
       ELSE /\ testPc' = "done"
            /\ report' = IF \A n \in WinNodes : results'[n] = "ok"
                         THEN "passed" ELSE "failed"
            /\ UNCHANGED cur

\* forceKubeApiServerCertificateRotation and require.NoError
ForceRotation ==
    /\ testPc = "force"
    /\ \E ok \in BOOLEAN :
          IF ok
          THEN /\ rotationPending' = TRUE
               /\ testPc' = "node"
               /\ UNCHANGED report
          ELSE /\ testPc' = "done"
               /\ report' = "failed"
               /\ UNCHANGED rotationPending
    /\ UNCHANGED <<authoritative, installed, reachable, addresses, cur,
                   pollElapsed, results>>
    /\ UNCHANGED notCert

\* waitForKubeletCACertificateInNode up to the call of wait.Poll
StartNode ==
    /\ testPc = "node"
    /\ IF addresses[CurNode]
       THEN /\ pollElapsed' = 0
            /\ testPc' = "wait"
            /\ UNCHANGED <<cur, results, report>>
       ELSE /\ FinishNode("error")
            /\ UNCHANGED pollElapsed
    /\ UNCHANGED <<authoritative, rotationPending, installed, reachable,
                   addresses>>
    /\ UNCHANGED notCert

\* wait.Poll: the next interval passes
CertTick ==
    /\ testPc = "wait"
    /\ ~CertPollExpired(pollElapsed)
    /\ pollElapsed' = pollElapsed + RetryInterval
    /\ testPc' = "cond"
    /\ UNCHANGED <<authoritative, rotationPending, installed, reachable,
                   addresses, cur, results, report>>
    /\ UNCHANGED notCert

\* wait.Poll: retry.Timeout is reached, ErrWaitTimeout is returned
CertTimeOut ==
    /\ testPc = "wait"
    /\ CertPollExpired(pollElapsed)
    /\ FinishNode("timeout")
    /\ UNCHANGED <<authoritative, rotationPending, installed, reachable,
                   addresses, pollElapsed>>
    /\ UNCHANGED notCert

\* wait.Poll calls the condition: the SSH job reads the node's bundle file,
\* the ConfigMap is fetched and parsed
CertPollCond ==
    /\ testPc = "cond"
    /\ \E fetchOk \in (IF reachable[CurNode] THEN BOOLEAN ELSE {FALSE}),
          cmOk \in BOOLEAN, parseOk \in BOOLEAN :
          LET r == caPollCondition(
                       installed[CurNode],
                       IF fetchOk THEN NilErr ELSE RemoteErr("runPowerShellSSHJob"),
                       IF cmOk THEN NilErr ELSE RemoteErr("ConfigMaps.Get"),
                       IF parseOk THEN NilErr ELSE RemoteErr("GetCAsFromConfigMap"),
                       ConfigMapText(authoritative))
          IN  IF r.err # NilErr THEN FinishNode("error")
              ELSE IF r.done THEN FinishNode("ok")
              ELSE /\ testPc' = "wait"
                   /\ UNCHANGED <<cur, results, report>>
    /\ UNCHANGED <<authoritative, rotationPending, installed, reachable,
                   addresses, pollElapsed>>
    /\ UNCHANGED notCert

CertInit ==
    /\ authoritative \in Bundles
    /\ rotationPending = FALSE
    /\ installed \in [WinNodes -> Bundles]
    /\ \A n \in WinNodes : HasAuthoritative(n)
    /\ reachable \in [WinNodes -> BOOLEAN]
    /\ addresses \in [WinNodes -> BOOLEAN]
    /\ testPc = "force"
    /\ cur = 1
    /\ pollElapsed = 0
    /\ results = [n \in WinNodes |-> "pending"]
    /\ report = "none"

InitCert ==
    /\ CertInit
    /\ InstIdle
    /\ GateIdle
    /\ SshIdle
    /\ PatchIdle
    /\ TransIdle
    /\ EnvVarIdle

NextCert ==
    \/ Rotate
    \/ \E n \in WinNodes : InstallBundle(n)
    \/ \E n \in WinNodes : NodeDown(n)
    \/ \E n \in WinNodes : NodeUp(n)
    \/ ForceRotation
    \/ StartNode
    \/ CertTick
    \/ CertTimeOut
    \/ CertPollCond

SpecCert == InitCert /\ [][NextCert]_vars

\* the controller gets to install the bundle on every node that lacks it
\* and can be reached
FairSpecCert == SpecCert /\ \A n \in WinNodes : WF_vars(InstallBundle(n))

-----------------------------------------------------------------------------
(* C17, C18, C19: convergence of the nodes on the authoritative bundle *)

AllReachable == \A n \in WinNodes : reachable[n]

AllConverged == \A n \in WinNodes : HasAuthoritative(n)

\* a subtest succeeds only on a node whose bundle file was read and held
\* the authoritative content
C17_OkMeansObserved ==
    \A n \in WinNodes :
        (results'[n] = "ok" /\ results[n] # "ok")
            => (reachable[n] /\ HasAuthoritative(n))

\* the rotation passes as converged only with every node observed
C17_PassedMeansAllObserved ==
    report = "passed" => \A n \in WinNodes : results[n] = "ok"

C18_WriteIsUnion ==
    \A n \in WinNodes :
        installed'[n] # installed[n]
            => BlocksOf(installed'[n])
                   = BlocksOf(installed[n]) \cup BlocksOf(authoritative)

\* C18: installing a bundle never replaces what was installed: the bundle
\* written to a node is the union of the blocks installed there before and
\* the blocks of the new authoritative bundle
C18_NeverDestructiveReplace == [][C18_WriteIsUnion]_vars

\* after a rotation a node holds the outgoing block next to the new bundle
C18_Witness ==
    /\ ~rotationPending
    /\ testPc = "wait"
    /\ \E n \in WinNodes :
          /\ HasAuthoritative(n)
          /\ BlocksOf(installed[n]) # BlocksOf(authoritative)

AllNodesChecked == \A n \in WinNodes : results[n] # "pending"

\* a step decides the subtest of the node the loop is at, and of no other
C19_OneNodeAtATime ==
    \A n \in WinNodes : results'[n] # results[n] => n = CurNode

\* a node whose subtest failed is followed by the next node of the list
C19_FailureGoesOn ==
    (results'[CurNode] \in {"timeout", "error"} /\ results[CurNode] = "pending"
     /\ cur < Len(NodeList))
        => (testPc' = "node" /\ cur' = cur + 1 /\ report' = "none")

\* the test ends with every node checked, unless forcing the rotation failed
\* and no node was looked at
C19_EveryNodeChecked ==
    testPc = "done"
        => (AllNodesChecked \/ \A n \in WinNodes : results[n] = "pending")

\* C19: a node that does not converge within the timeout fails for itself
\* only; every node is checked whatever the earlier nodes' results were
C19_PerHostIndependent ==
    /\ [][C19_OneNodeAtATime /\ C19_FailureGoesOn]_vars
    /\ []C19_EveryNodeChecked

\* the first node timed out and a later node was still found converged
C19_Witness ==
    /\ testPc = "done"
    /\ results[NodeList[1]] = "timeout"
    /\ results[NodeList[Len(NodeList)]] = "ok"
    /\ report = "failed"

-----------------------------------------------------------------------------
(* C20: cancellation of the connection retry loop *)

\* the error is, or wraps, a cancellation error
IsCanceled(err) == \E k \in DOMAIN err : err[k].kind = "Canceled"

\* once cancellation is raised no further connection attempt is started
C20_NoAttemptAfterCancel == cancelled => dials' = dials

\* a loop that ends after cancellation was raised returns the cancellation
\* error, not the last transient error or the timeout error
C20_EndsWithCancellationError ==
    (cancelled /\ sshPc # "done" /\ sshPc' = "done") => IsCanceled(initErr')

\* C20: the retry loop observes the caller's cancellation between
\* iterations: once it is raised no further attempt is started and the
\* loop ends with the cancellation error
C20_CancellationObserved ==
    [][C20_NoAttemptAfterCancel /\ C20_EndsWithCancellationError]_vars

-----------------------------------------------------------------------------
(* C21: run and transfer make one attempt *)

\* the operations of a call in which nothing fails
AllOps ==
    IF tCall.fn = "run"
    THEN <<"NewSession", "CombinedOutput">>
    ELSE <<"NewClient", "MkdirAll", "Create", "Copy">>

\* every operation was performed at most once, in the order of the code
C21_OneAttemptEach ==
    /\ Len(tOps) <= Len(AllOps)
    /\ tOps = SubSeq(AllOps, 1, Len(tOps))

\* a call that stopped before its last operation, or whose copy wrote only
\* a part of the content, returns an error
C21_FailureReturned ==
    tRet.returned
        => /\ Len(tOps) < Len(AllOps) => tRet.err # NilErr
           /\ (tCall.fn = "transfer" /\ Len(tOps) = Len(AllOps)
                /\ remote.written < FileChunks) => tRet.err # NilErr

\* the deferred close hands on the output and the error of the return
\* statement as they are
C21_DeferKeepsResult ==
    tPc \in {"deferSessionClose", "deferFtpClose"}
        => (tRet'.out = tRet.out /\ tRet'.err = tRet.err)

\* C21: run and transfer perform each operation once per invocation; a
\* failure to open the session or the SFTP client, a failing command and a
\* failed copy are returned without a further attempt, and run returns the
\* output together with the error
C21_SingleAttempt ==
    /\ [](C21_OneAttemptEach /\ C21_FailureReturned)
    /\ [][C21_DeferKeepsResult]_vars

\* run returned the output of a command that failed
C21_Witness ==
    /\ tRet.returned
    /\ tCall.fn = "run"
    /\ tOps = <<"NewSession", "CombinedOutput">>
    /\ tRet.err # NilErr
    /\ tRet.out = "output"

-----------------------------------------------------------------------------
(* C22: the per-node check waitForKubeletCACertificateInNode *)

\* the step ends an iteration of the poll on the current node
IterationEnds == testPc = "cond" /\ testPc' # "cond"

\* the check succeeds only in an iteration that fetched a bundle file
\* holding the trimmed authoritative content
C22_SuccessOnlyWhenFound ==
    \A n \in WinNodes :
        (results[n] = "pending" /\ results'[n] = "ok")
            => /\ testPc = "cond"
               /\ n = CurNode
               /\ reachable[n]
               /\ TextContains(installed[n], authoritative)

\* an iteration that cannot fetch the bundle file leaves the poll running
C22_FetchFailureRetried ==
    (IterationEnds /\ ~reachable[CurNode])
        => (testPc' = "wait" /\ results' = results)

\* an error ends the check at once: the node has no address, or the
\* ConfigMap could not be read or parsed after the file was fetched
C22_ErrorEndsPoll ==
    \A n \in WinNodes :
        (results[n] = "pending" /\ results'[n] = "error")
            => \/ testPc = "node" /\ ~addresses[n]
               \/ testPc = "cond" /\ reachable[n]

\* the check times out only while waiting, with no interval left before
\* retry.Timeout
C22_TimeoutOnlyAtDeadline ==
    \A n \in WinNodes :
        (results[n] = "pending" /\ results'[n] = "timeout")
            => (testPc = "wait" /\ pollElapsed + RetryInterval > RetryTimeout)

\* every iteration starts within retry.Timeout
C22_IterationsWithinTimeout ==
    testPc = "cond" => (pollElapsed >= RetryInterval /\ pollElapsed <= RetryTimeout)

\* C22: the per-node check succeeds only at an iteration where the fetched
\* bundle holds the trimmed authoritative content; a failed fetch is
\* retried, a failure to read or parse the ConfigMap ends the poll with
\* that error, and without a success the check ends in the timeout error
C22_PerHostCheck ==
    /\ [][/\ C22_SuccessOnlyWhenFound
           /\ C22_FetchFailureRetried
           /\ C22_ErrorEndsPoll
           /\ C22_TimeoutOnlyAtDeadline]_vars
    /\ []C22_IterationsWithinTimeout

\* the last node was found converged at its second iteration
C22_Witness ==
    /\ testPc = "done"
    /\ results[NodeList[Len(NodeList)]] = "ok"
    /\ pollElapsed = 2 * RetryInterval

-----------------------------------------------------------------------------
(* envvar.EnsureVarsAreUpToDate *)

\* number of calls made one after the other with the same argument
MaxEnvCalls == 2

\* names of the proxy environment variables given to the call
EnvNames == {"HTTP_PROXY", "NO_PROXY"}

\* names of values under the registry key; "Path" is never in the argument
RegistryNames == EnvNames \cup {"Path"}

\* values of environment variables
EnvValues == {"", "proxy"}

\* registryKey.GetStringValue(key) with registry.ErrNotExist ignored: a
\* name without a value reads as the empty string
GetStringValue(reg, key) == IF key \in DOMAIN reg THEN reg[key] ELSE ""

\* a return statement reached after the defer of registryKey.Close()
EnvReturn(restart, err) ==
    /\ envRet' = [restart |-> restart, err |-> err]
    /\ envPc' = "close"

\* registry.OpenKey; range picks the order in which it visits the map
OpenKey ==
    /\ envPc = "call"
    /\ \E ok \in BOOLEAN :
          IF ok
          THEN /\ keyHandle' = "open"
               /\ restartRequired' = FALSE
               /\ envTodo' \in OrdersOf(DOMAIN envVars)
               /\ envPc' = "loop"
               /\ UNCHANGED <<envRet, envLog>>
          ELSE /\ envRet' = [restart |-> FALSE,
                             err |-> Errorf("unable to open Windows system registry key",
                                            RemoteErr("OpenKey"))]
               /\ envLog' = Append(envLog, [before |-> regBefore, after |-> registry,
                                            restart |-> envRet'.restart,
                                            err |-> envRet'.err])
               /\ envPc' = "done"
               /\ restartRequired' = FALSE
               /\ UNCHANGED <<keyHandle, envTodo>>
    /\ UNCHANGED <<envVars, registry, regBefore>>
    /\ UNCHANGED notEnvVar

\* mutant: the value is written whether or not it differs
VisitVar_alwaysWrites ==
    /\ envPc = "loop"
    /\ envTodo # <<>>
    /\ LET key == Head(envTodo)
           expectedVal == envVars[key]
       IN  \E readOk \in BOOLEAN, setOk \in BOOLEAN :
              IF ~readOk
              THEN /\ EnvReturn(FALSE, Errorf("unable to read environment variable",
                                              RemoteErr("GetStringValue")))
                   /\ UNCHANGED <<registry, envTodo, restartRequired>>
              ELSE IF TRUE
              THEN IF setOk
                   THEN /\ registry' = (key :> expectedVal) @@ registry
                        /\ restartRequired' = TRUE
                        /\ envTodo' = Tail(envTodo)
                        /\ UNCHANGED <<envPc, envRet>>
                   ELSE /\ EnvReturn(FALSE,
                                     Errorf("unable to set environment variable",
                                            RemoteErr("SetStringValue")))
                        /\ UNCHANGED <<registry, envTodo, restartRequired>>
              ELSE /\ envTodo' = Tail(envTodo)
                   /\ UNCHANGED <<registry, restartRequired, envPc, envRet>>
    /\ UNCHANGED <<envVars, regBefore, keyHandle, envLog>>
    /\ UNCHANGED notEnvVar

\* one iteration of the loop: the value is read, compared and, if it
\* differs, written
VisitVar ==
    /\ envPc = "loop"
    /\ envTodo # <<>>
    /\ LET key == Head(envTodo)
           expectedVal == envVars[key]
       IN  \E readOk \in BOOLEAN, setOk \in BOOLEAN :
              IF ~readOk
              THEN /\ EnvReturn(FALSE, Errorf("unable to read environment variable",
                                              RemoteErr("GetStringValue")))
                   /\ UNCHANGED <<registry, envTodo, restartRequired>>
              ELSE IF GetStringValue(registry, key) # expectedVal
              THEN IF setOk
                   THEN /\ registry' = (key :> expectedVal) @@ registry
                        /\ restartRequired' = TRUE
                        /\ envTodo' = Tail(envTodo)
                        /\ UNCHANGED <<envPc, envRet>>
                   ELSE /\ EnvReturn(FALSE,
                                     Errorf("unable to set environment variable",
                                            RemoteErr("SetStringValue")))
                        /\ UNCHANGED <<registry, envTodo, restartRequired>>
              ELSE /\ envTodo' = Tail(envTodo)
                   /\ UNCHANGED <<registry, restartRequired, envPc, envRet>>
    /\ UNCHANGED <<envVars, regBefore, keyHandle, envLog>>
    /\ UNCHANGED notEnvVar

\* the loop is through: return restartRequired, nil
LoopEnd ==
    /\ envPc = "loop"
    /\ envTodo = <<>>
    /\ EnvReturn(restartRequired, NilErr)
    /\ UNCHANGED <<envVars, registry, regBefore, envTodo, restartRequired,
                   keyHandle, envLog>>
    /\ UNCHANGED notEnvVar

\* the deferred registryKey.Close(), whose error is logged; the call returns
CloseKey ==
    /\ envPc = "close"
    /\ \E ok \in BOOLEAN : keyHandle' = IF ok THEN "closed" ELSE "closeFailed"
    /\ envLog' = Append(envLog, [before |-> regBefore, after |-> registry,
                                 restart |-> envRet.restart, err |-> envRet.err])
    /\ envPc' = "done"
    /\ UNCHANGED <<envVars, registry, regBefore, envTodo, restartRequired, envRet>>
    /\ UNCHANGED notEnvVar

\* the caller calls again with the same map
CallAgain ==
    /\ envPc = "done"
    /\ Len(envLog) < MaxEnvCalls
    /\ envPc' = "call"
    /\ regBefore' = registry
    /\ keyHandle' = "none"
    /\ envTodo' = <<>>
    /\ restartRequired' = FALSE
    /\ envRet' = [restart |-> FALSE, err |-> NilErr]
    /\ UNCHANGED <<envVars, registry, envLog>>
    /\ UNCHANGED notEnvVar

EnvVarInit ==
    /\ envVars \in UNION {[S -> EnvValues] : S \in SUBSET EnvNames}
    /\ registry \in UNION {[S -> EnvValues] : S \in SUBSET RegistryNames}
    /\ regBefore = registry
    /\ envPc = "call"
    /\ envTodo = <<>>
    /\ restartRequired = FALSE
    /\ keyHandle = "none"
    /\ envRet = [restart |-> FALSE, err |-> NilErr]
    /\ envLog = <<>>

InitEnvVar ==
    /\ EnvVarInit
    /\ InstIdle
    /\ GateIdle
    /\ SshIdle
    /\ PatchIdle
    /\ TransIdle
    /\ CertIdle

NextEnvVar ==
    \/ OpenKey
    \/ VisitVar
    \/ LoopEnd
    \/ CloseKey
    \/ CallAgain

SpecEnvVar == InitEnvVar /\ [][NextEnvVar]_vars

-----------------------------------------------------------------------------
(* C23, C24: what EnsureVarsAreUpToDate returns and what it has written *)

\* the registry holds the expected value of a variable; a variable expected
\* to be empty may also be without a value, which reads as empty
HoldsExpected(reg, key) ==
    \/ key \in DOMAIN reg /\ reg[key] = envVars[key]
    \/ key \notin DOMAIN reg /\ envVars[key] = ""

\* the two registries agree on a name
SameEntry(regA, regB, key) ==
    /\ key \in DOMAIN regA <=> key \in DOMAIN regB
    /\ key \in DOMAIN regA => regA[key] = regB[key]

\* C23: after a call that returns without error every variable of the map
\* holds its expected value and every other value is as it was; the call
\* returns true exactly if some variable did not hold its expected value
\* before; a call repeated right after it writes nothing and returns false
C23_IdempotentDiff ==
    \A n \in DOMAIN envLog :
        LET e == envLog[n]
        IN  /\ e.err = NilErr
                => /\ \A key \in DOMAIN envVars : HoldsExpected(e.after, key)
                   /\ \A key \in RegistryNames \ DOMAIN envVars :
                         SameEntry(e.before, e.after, key)
                   /\ e.restart
                         <=> \E key \in DOMAIN envVars : ~HoldsExpected(e.before, key)
            /\ (n > 1 /\ envLog[n - 1].err = NilErr)
                => (e.after = e.before /\ ~e.restart)

\* a call updated the registry and returned true, the next one returned
\* false
C23_Witness ==
    /\ Len(envLog) = 2
    /\ envLog[1].err = NilErr /\ envLog[1].restart
    /\ envLog[1].after # envLog[1].before
    /\ envLog[2].err = NilErr /\ ~envLog[2].restart

\* C24: a call that changed a registry value returns restartRequired = true,
\* also when it ends with an error after earlier variables were updated
C24_ChangeMeansRestart ==
    \A n \in DOMAIN envLog :
        envLog[n].after # envLog[n].before => envLog[n].restart

-----------------------------------------------------------------------------
(* C25: the encoding of keys as path segments *)

\* the keys the operations of the generated document address
AddressedKeys ==
    {DecodeSegment(PathSegment(patchOut.data[k].path)) : k \in DOMAIN patchOut.data}

\* C25: the encoding of keys is injective and reversible: the operations of
\* a generated document have pairwise distinct paths, and decoding their
\* segments gives back exactly the keys the document was generated for
C25_EncodingReversible ==
    (patchOut.returned /\ patchOut.err = NilErr)
        => /\ \A i, j \in DOMAIN patchOut.data :
                 i # j => patchOut.data[i].path # patchOut.data[j].path
           /\ AddressedKeys = PatchInputKeys

====
